---- MODULE Spec2Model ----
(***************************************************************************)
(* Fluxa event processing core: the idempotency ledger (CheckAndMark /     *)
(* MarkSuccess / MarkFailed), the events table (InsertEvent), the          *)
(* processor (handler / ProcessMessage / process / failPermanent), the     *)
(* ingest handler and the SQS transport that connects them.                *)
(*                                                                         *)
(* Time is counted in seconds and observed at a few instants.  A processor *)
(* invocation lives at most ProcessorTimeout seconds, so the clock passes  *)
(* an instant only when every running invocation is young enough to        *)
(* survive it.                                                             *)
(***************************************************************************)
EXTENDS Integers, Sequences, FiniteSets, TLC

\* ---------------------------------------------------------------- bounds
ShortStep == 30
ShortTicks == 2
MaxTicks == 3
MaxMsgs == 2
MaxBatch == 2
SubmitUntil == 0
MaxFaults == 1
MaxCrashes == 1
MaxLongTicks == 3
RedriveFaults == 3
MaxAttempts == 3

\* ------------------------------------------------------ program constants
LivenessWindow == 60
MaxClaimLoop == 3
ProcessorTimeout == 50
VisibilityTimeout == 300
MaxReceiveCount == 3
FutureDrift == 300
MaxMetadataKeys == 10
MaxInlineSize == 262144
SecondsPerDay == 86400

Workers == {"w1", "w2"}
EventIds == {"e1", "e2"}
\* The event_ids uuid.New() gives to events sent without one.
GenIds == {"g1", "g2"}
AllIds == EventIds \cup GenIds

VARIABLES now, ledger, events, blobs, queue, wk, hist

vars == <<now, ledger, events, blobs, queue, wk, hist>>

\* ------------------------------------------------------------ data model

\* models.Event; timestamp in seconds, ZeroTime is the zero time.Time.
ZeroTime == 0 - 1

Event(eid, amount, ts, size) ==
    [event_id |-> eid, user_id |-> "u1", amount |-> amount, currency |-> "USD",
     merchant |-> "m1", timestamp |-> ts, nmeta |-> 0, size |-> size]

\* Event.Validate: the first violated constraint, "" when the event is valid.
Validate(e, t) ==
    IF e.user_id = "" THEN "user_id"
    ELSE IF e.amount <= 0 THEN "amount"
    ELSE IF e.currency = "" THEN "currency"
    ELSE IF e.merchant = "" THEN "merchant"
    ELSE IF e.timestamp = ZeroTime THEN "timestamp"
    ELSE IF e.timestamp > t + FutureDrift THEN "timestamp"
    ELSE IF e.nmeta > MaxMetadataKeys THEN "metadata"
    ELSE ""

\* ErrInvalidEvent: the offending field and the code; NoError is a nil error.
ErrInvalidEvent(field, code) == [field |-> field, code |-> code]
NoError == ErrInvalidEvent("", "")

\* A validation that rejects a timestamp of exactly now + 5 minutes.
ValidationError_Inclusive(e, t) ==
    IF e.user_id = "" THEN ErrInvalidEvent("user_id", "MISSING_FIELD")
    ELSE IF e.amount <= 0 THEN ErrInvalidEvent("amount", "INVALID_VALUE")
    ELSE IF e.currency = "" THEN ErrInvalidEvent("currency", "MISSING_FIELD")
    ELSE IF e.merchant = "" THEN ErrInvalidEvent("merchant", "MISSING_FIELD")
    ELSE IF e.timestamp = ZeroTime THEN ErrInvalidEvent("timestamp", "MISSING_FIELD")
    ELSE IF e.timestamp >= t + FutureDrift
    THEN ErrInvalidEvent("timestamp", "INVALID_VALUE")
    ELSE IF e.nmeta > MaxMetadataKeys THEN ErrInvalidEvent("metadata", "INVALID_VALUE")
    ELSE NoError

\* A validation that checks the timestamp before the other fields.
ValidationError_TimestampFirst(e, t) ==
    IF e.timestamp = ZeroTime THEN ErrInvalidEvent("timestamp", "MISSING_FIELD")
    ELSE IF e.timestamp > t + FutureDrift
    THEN ErrInvalidEvent("timestamp", "INVALID_VALUE")
    ELSE IF e.user_id = "" THEN ErrInvalidEvent("user_id", "MISSING_FIELD")
    ELSE IF e.amount <= 0 THEN ErrInvalidEvent("amount", "INVALID_VALUE")
    ELSE IF e.currency = "" THEN ErrInvalidEvent("currency", "MISSING_FIELD")
    ELSE IF e.merchant = "" THEN ErrInvalidEvent("merchant", "MISSING_FIELD")
    ELSE IF e.nmeta > MaxMetadataKeys THEN ErrInvalidEvent("metadata", "INVALID_VALUE")
    ELSE NoError

\* Event.Validate with the error it returns, at clock reading t.
ValidationError(e, t) ==
    IF e.user_id = "" THEN ErrInvalidEvent("user_id", "MISSING_FIELD")
    ELSE IF e.amount <= 0 THEN ErrInvalidEvent("amount", "INVALID_VALUE")
    ELSE IF e.currency = "" THEN ErrInvalidEvent("currency", "MISSING_FIELD")
    ELSE IF e.merchant = "" THEN ErrInvalidEvent("merchant", "MISSING_FIELD")
    ELSE IF e.timestamp = ZeroTime THEN ErrInvalidEvent("timestamp", "MISSING_FIELD")
    ELSE IF e.timestamp > t + FutureDrift
    THEN ErrInvalidEvent("timestamp", "INVALID_VALUE")
    ELSE IF e.nmeta > MaxMetadataKeys THEN ErrInvalidEvent("metadata", "INVALID_VALUE")
    ELSE NoError

\* Byte strings: the JSON encoding of an event, bytes that are no JSON, or no
\* bytes at all (a nil pointer).
NilBytes == [kind |-> "nil"]
Garbage == [kind |-> "garbage"]

\* Event.ToJSON (json.Marshal)
ToJSON(e) == [kind |-> "json", event |-> e]

\* json.Unmarshal into models.Event
Unmarshal(b) ==
    IF b.kind = "json" THEN [ok |-> TRUE, event |-> b.event]
    ELSE [ok |-> FALSE, event |-> Event("", 0, ZeroTime, 0)]

\* len(payloadBytes)
Size(b) == IF b.kind = "json" THEN b.event.size ELSE 0

\* hex(sha256(bytes)); distinct bytes have distinct digests.
SHA256(b) == [sha |-> b]
NoDigest == [sha |-> NilBytes]
BadDigest == [sha |-> [kind |-> "other"]]

ShouldUseS3_Inclusive(payloadSize) == payloadSize >= MaxInlineSize

\* queue.ShouldUseS3
ShouldUseS3(payloadSize) == payloadSize > MaxInlineSize

\* storage.PutPayload key: raw/YYYY-MM-DD/<event_id>.json
NoKey == [date |-> 0 - 1, id |-> ""]
S3Key(eid, t) == [date |-> t \div SecondsPerDay, id |-> eid]
Keys == {S3Key(e, 0) : e \in AllIds}

\* models.SQSEventMessage, as the body of an SQS record (json_ok: the body is
\* well-formed JSON); received_at is the zero time unless the producer sets it.
Message(eid, corr, mode, inline, sha, key) ==
    [json_ok |-> TRUE, event_id |-> eid, correlation_id |-> corr,
     payload_mode |-> mode, payload_inline |-> inline, payload_sha256 |-> sha,
     s3_key |-> key, received_at |-> ZeroTime]

\* queue.SendEventMessage: the string attributes sent with the body.
MessageAttributes(msg) ==
    [correlation_id |-> msg.correlation_id, event_id |-> msg.event_id]

\* queue.ParseSQSEventMessage: TRUE when the body parses.
ParseSQSEventMessage(body) ==
    /\ body.json_ok
    /\ body.event_id # ""
    /\ body.correlation_id # ""
    /\ body.payload_sha256 # NoDigest

\* ------------------------------------------------------------ the ledger

\* A row of idempotency_keys; AbsentRow stands for "no row".
Row(st, ls, at, er) ==
    [status |-> st, last_seen_at |-> ls, attempts |-> at, error_reason |-> er]
AbsentRow == Row("absent", 0, 0, "")

\* Variants of the decision, each with one rule changed.
CheckAndMarkExisting_NoSuccess(row, t) ==
    IF row.status = "processing" /\ t - row.last_seen_at < LivenessWindow
    THEN [already |-> TRUE, row |-> row]
    ELSE [already |-> FALSE,
          row |-> [row EXCEPT !.status = "processing", !.last_seen_at = t,
                              !.attempts = @ + 1]]

CheckAndMarkExisting_NoWindow(row, t) ==
    IF row.status = "success"
    THEN [already |-> TRUE, row |-> row]
    ELSE [already |-> FALSE,
          row |-> [row EXCEPT !.status = "processing", !.last_seen_at = t,
                              !.attempts = @ + 1]]

CheckAndMarkExisting_Touch(row, t) ==
    IF row.status = "success"
    THEN [already |-> TRUE, row |-> row]
    ELSE IF row.status = "processing" /\ t - row.last_seen_at < LivenessWindow
    THEN [already |-> TRUE, row |-> [row EXCEPT !.last_seen_at = t]]
    ELSE [already |-> FALSE,
          row |-> [row EXCEPT !.status = "processing", !.last_seen_at = t,
                              !.attempts = @ + 1]]

CheckAndMarkExisting_Inclusive(row, t) ==
    IF row.status = "success"
    THEN [already |-> TRUE, row |-> row]
    ELSE IF row.status = "processing" /\ t - row.last_seen_at <= LivenessWindow
    THEN [already |-> TRUE, row |-> row]
    ELSE [already |-> FALSE,
          row |-> [row EXCEPT !.status = "processing", !.last_seen_at = t,
                              !.attempts = @ + 1]]

CheckAndMarkExisting_FailedWindow(row, t) ==
    IF row.status = "success"
    THEN [already |-> TRUE, row |-> row]
    ELSE IF t - row.last_seen_at < LivenessWindow
    THEN [already |-> TRUE, row |-> row]
    ELSE [already |-> FALSE,
          row |-> [row EXCEPT !.status = "processing", !.last_seen_at = t,
                              !.attempts = @ + 1]]

\* CheckAndMark on an existing, locked row: the result and the row it leaves.
CheckAndMarkExisting(row, t) ==
    IF row.status = "success"
    THEN [already |-> TRUE, row |-> row]
    ELSE IF row.status = "processing" /\ t - row.last_seen_at < LivenessWindow
    THEN [already |-> TRUE, row |-> row]
    ELSE [already |-> FALSE,
          row |-> [row EXCEPT !.status = "processing", !.last_seen_at = t,
                              !.attempts = @ + 1]]

\* An INSERT that starts the count of attempts at zero.
NewRow_Zero(t) == Row("processing", t, 0, "")

\* CheckAndMark's INSERT of a new row.
NewRow(t) == Row("processing", t, 1, "")

\* An INSERT into a table without the primary key never conflicts.
InsertConflict_Never(row) == FALSE

\* The INSERT violates the primary key when a row for the event_id exists.
InsertConflict(row) == row.status # "absent"

\* A MarkSuccess that only completes a first attempt.
MarkSuccessRow_FirstAttempt(row, t) ==
    IF row.status = "absent" \/ row.attempts > 1 THEN row
    ELSE [row EXCEPT !.status = "success", !.last_seen_at = t]

\* MarkSuccess: UPDATE ... SET status, last_seen_at WHERE event_id
MarkSuccessRow(row, t) ==
    IF row.status = "absent" THEN row
    ELSE [row EXCEPT !.status = "success", !.last_seen_at = t]

\* A MarkFailed that records the reason and leaves the status alone.
MarkFailedRow_KeepStatus(row, t, reason) ==
    IF row.status = "absent" THEN row
    ELSE [row EXCEPT !.last_seen_at = t, !.error_reason = reason]

\* MarkFailed: UPDATE ... SET status, last_seen_at, error_reason WHERE event_id
MarkFailedRow(row, t, reason) ==
    IF row.status = "absent" THEN row
    ELSE [row EXCEPT !.status = "failed", !.last_seen_at = t,
                     !.error_reason = reason]

\* ------------------------------------------------------- the events table

\* A row that does not record the correlation id it is given.
EventRow_NoCorrelation(e, corr, mode, key) ==
    [event_id |-> e.event_id, correlation_id |-> "unknown", user_id |-> e.user_id,
     amount |-> e.amount, currency |-> e.currency, merchant |-> e.merchant,
     ts |-> e.timestamp, payload_mode |-> mode, s3_key |-> key]

EventRow(e, corr, mode, key) ==
    [event_id |-> e.event_id, correlation_id |-> corr, user_id |-> e.user_id,
     amount |-> e.amount, currency |-> e.currency, merchant |-> e.merchant,
     ts |-> e.timestamp, payload_mode |-> mode, s3_key |-> key]

RowsOf(tbl, eid) == {i \in 1..Len(tbl) : tbl[i].event_id = eid}

\* The widths of the columns of events: a longer value makes the INSERT fail.
MaxIdLen == 36
MaxCurrencyLen == 3
MaxNameLen == 255
FitsColumns(row) ==
    /\ Len(row.event_id) <= MaxIdLen
    /\ Len(row.correlation_id) <= MaxIdLen
    /\ Len(row.user_id) <= MaxNameLen
    /\ Len(row.currency) <= MaxCurrencyLen
    /\ Len(row.merchant) <= MaxNameLen

\* A plain INSERT, without the conflict clause.
InsertEvent_NoConflict(tbl, row) == Append(tbl, row)

\* An INSERT that reports success and stores nothing.
InsertEvent_Lost(tbl, row) == tbl

\* InsertEvent: INSERT ... ON CONFLICT (event_id) DO NOTHING
InsertEvent(tbl, row) ==
    IF RowsOf(tbl, row.event_id) # {} THEN tbl ELSE Append(tbl, row)

\* --------------------------------------------------------- the transport

Slot(body, st, rc, at) ==
    [body |-> body, state |-> st, receives |-> rc, received_at |-> at]

MsgIds == 1..Len(queue)

\* The bodies a producer other than ingest puts on the queue.
InjectKinds == {"hash_mismatch", "future", "malformed"}
FutureTs == FutureDrift + 1

InjectedBody(kind, eid) ==
    CASE kind = "hash_mismatch" ->
           Message(eid, "c1", "INLINE", ToJSON(Event(eid, 10, 1, 100)),
                   BadDigest, NoKey)
      [] kind = "future" ->
           Message(eid, "c1", "INLINE", ToJSON(Event(eid, 10, FutureTs, 100)),
                   SHA256(ToJSON(Event(eid, 10, FutureTs, 100))), NoKey)
      [] kind = "other_id" ->
           Message(eid, "c2", "INLINE", ToJSON(Event("e2", 10, 1, 100)),
                   SHA256(ToJSON(Event("e2", 10, 1, 100))), NoKey)
      [] kind = "no_id" ->
           Message(eid, "c2", "INLINE", ToJSON(Event("", 10, 1, 100)),
                   SHA256(ToJSON(Event("", 10, 1, 100))), NoKey)
      [] kind = "no_event_id" ->
           Message("", "c1", "INLINE", ToJSON(Event(eid, 10, 1, 100)),
                   SHA256(ToJSON(Event(eid, 10, 1, 100))), NoKey)
      [] kind = "no_correlation" ->
           Message(eid, "", "INLINE", ToJSON(Event(eid, 10, 1, 100)),
                   SHA256(ToJSON(Event(eid, 10, 1, 100))), NoKey)
      [] kind = "no_digest" ->
           Message(eid, "c1", "INLINE", ToJSON(Event(eid, 10, 1, 100)),
                   NoDigest, NoKey)
      [] OTHER ->
           [Message(eid, "c1", "INLINE", NilBytes, BadDigest, NoKey)
              EXCEPT !.json_ok = FALSE]

\* The request bodies clients send to ingest.
ClientKinds == {"garbage", "invalid", "small", "large"}
ClientRequests == (ClientKinds \X {"e1"}) \cup {<<"small", "e2">>}
InjectRequests == InjectKinds \X {"e1"}

\* The further request bodies of the ingest-only specification: a payload of
\* exactly MaxInlineSize bytes, and a second large payload that differs from
\* the first in the amount.
IngestKinds == ClientKinds \cup {"edge", "large2"}
IngestRequests == IngestKinds \X EventIds

\* The request bodies of the validation specification: one per constraint of
\* Event.Validate, on and off its boundary, and a currency of four letters.
ValidateKinds ==
    {"garbage", "invalid", "negative", "small", "no_user", "no_currency",
     "no_merchant", "zero_ts", "drift", "future", "meta10", "meta11", "wide"}
ValidateRequests == ValidateKinds \X {"e1"}

ClientBody(kind, eid) ==
    CASE kind = "garbage" -> Garbage
      [] kind = "invalid" -> ToJSON(Event(eid, 0, 1, 100))
      [] kind = "small" -> ToJSON(Event(eid, 10, 1, 100))
      [] kind = "edge" -> ToJSON(Event(eid, 10, 1, MaxInlineSize))
      [] kind = "large2" -> ToJSON(Event(eid, 20, 1, MaxInlineSize + 1))
      [] kind = "negative" -> ToJSON(Event(eid, 0 - 1, 1, 100))
      [] kind = "no_user" -> ToJSON([Event(eid, 10, 1, 100) EXCEPT !.user_id = ""])
      [] kind = "no_currency" -> ToJSON([Event(eid, 10, 1, 100) EXCEPT !.currency = ""])
      [] kind = "no_merchant" -> ToJSON([Event(eid, 10, 1, 100) EXCEPT !.merchant = ""])
      [] kind = "zero_ts" -> ToJSON(Event(eid, 10, ZeroTime, 100))
      [] kind = "drift" -> ToJSON(Event(eid, 10, FutureDrift, 100))
      [] kind = "future" -> ToJSON(Event(eid, 10, FutureTs, 100))
      [] kind = "meta10" -> ToJSON([Event(eid, 10, 1, 100) EXCEPT !.nmeta = MaxMetadataKeys])
      [] kind = "meta11" -> ToJSON([Event(eid, 10, 1, 100) EXCEPT !.nmeta = MaxMetadataKeys + 1])
      [] kind = "wide" -> ToJSON([Event(eid, 10, 1, 100) EXCEPT !.currency = "USDT"])
      [] OTHER -> ToJSON(Event(eid, 10, 1, MaxInlineSize + 1))

\* The message ingest builds for an accepted event at time t; ReceivedAt is
\* event.Timestamp.
IngestMessage(ev, corr, t) ==
    LET payloadBytes == ToJSON(ev)
        useS3 == ShouldUseS3(Size(payloadBytes))
    IN [Message(ev.event_id, corr, IF useS3 THEN "S3" ELSE "INLINE",
                IF useS3 THEN NilBytes ELSE payloadBytes,
                SHA256(payloadBytes),
                IF useS3 THEN S3Key(ev.event_id, t) ELSE NoKey)
          EXCEPT !.received_at = ev.timestamp]

\* ------------------------------------------------------------ the workers

IdleWorker ==
    [pc |-> "idle", batch |-> <<>>, idx |-> 0, started |-> 0, loop |-> 0,
     tx_aborted |-> FALSE, seen |-> "none", payload |-> NilBytes,
     reason |-> "", result |-> "none"]

Active(w) == wk[w].pc # "idle"
\* Invocations are interchangeable: a batch goes to the first idle one.
Rank(w) == IF w = "w1" THEN 1 ELSE 2
CurId(w) == wk[w].batch[wk[w].idx]
CurMsg(w) == queue[CurId(w)].body
CurEvent(w) == CurMsg(w).event_id
InBatch(w, m) == \E k \in 1..Len(wk[w].batch) : wk[w].batch[k] = m

\* handler: ProcessMessage returned nil for the current message; the loop goes
\* on to the next record, or the handler returns nil and the batch is deleted.
ReturnNil(w) ==
    IF wk[w].idx < Len(wk[w].batch)
    THEN /\ wk' = [wk EXCEPT ![w] = [IdleWorker EXCEPT !.pc = "handler",
                                       !.batch = wk[w].batch,
                                       !.idx = wk[w].idx + 1,
                                       !.started = wk[w].started]]
         /\ queue' = queue
    ELSE /\ wk' = [wk EXCEPT ![w] = IdleWorker]
         /\ queue' = [i \in MsgIds |->
                        IF InBatch(w, i)
                        THEN Slot(queue[i].body, "deleted", queue[i].receives, 0)
                        ELSE queue[i]]

\* A handler that swallows the error: the batch is deleted.
ReturnErr_Ack(w) ==
    /\ wk' = [wk EXCEPT ![w] = IdleWorker]
    /\ queue' = [i \in MsgIds |->
                   IF InBatch(w, i)
                   THEN Slot(queue[i].body, "deleted", queue[i].receives, 0)
                   ELSE queue[i]]

\* handler: ProcessMessage returned an error; the handler returns it and the
\* whole batch stays on the queue, invisible until its visibility timeout.
ReturnErr(w) ==
    /\ wk' = [wk EXCEPT ![w] = IdleWorker]
    /\ queue' = queue

\* History: what the stores held for the event_id of a message when
\* ProcessMessage first returned nil for it.
NoSnap == [status |-> "none", rows |-> 0]
Snap(h, m, e, led, tbl) ==
    IF h.snap[m] # NoSnap THEN h
    ELSE [h EXCEPT !.snap[m] = [status |-> led[e].status,
                                rows |-> Cardinality(RowsOf(tbl, e))]]

\* An infrastructure fault (database, S3, SQS) is injected when f holds; the
\* history counts the faults, of which a behaviour has at most MaxFaults.
MayFault(f) == f => hist.faults < hist.budget.faults
Fault(f) ==
    /\ MayFault(f)
    /\ hist' = [hist EXCEPT !.faults = @ + IF f THEN 1 ELSE 0]
\* History: CheckAndMark has returned fresh for e.
Fresh(e) == hist' = [hist EXCEPT !.fresh[e] = @ + 1]

\* The SNS message of a processed event: body and string attributes.
Notification(msg) ==
    [event_id |-> msg.event_id, status |-> "processed",
     attributes |-> [event_id |-> msg.event_id,
                     correlation_id |-> msg.correlation_id]]

\* The last response of the query handler.
NoReply == [status |-> 0, record |-> <<>>]

\* Empty stores, empty queue, no invocation, nothing published to the SNS
\* topic; budget: how many faults and crashes the environment may cause in a
\* behaviour.
InitWith(budget) ==
    /\ now = 0
    /\ ledger = [e \in AllIds |-> AbsentRow]
    /\ events = <<>>
    /\ blobs = [k \in Keys |-> NilBytes]
    /\ queue = <<>>
    /\ wk = [w \in Workers |-> IdleWorker]
    /\ hist = [succeeded |-> {}, faults |-> 0, crashes |-> 0,
               fresh |-> [e \in AllIds |-> 0],
               snap |-> [m \in 1..MaxMsgs |-> NoSnap],
               budget |-> budget, reply |-> NoReply, published |-> <<>>]

Init == InitWith([faults |-> MaxFaults, crashes |-> MaxCrashes])

\* The instants at which the clock is observed: ShortTicks steps of ShortStep
\* seconds, then the instant at which the visibility timeout of a message
\* received at 0 expires, then short steps again.
Instant(k) ==
    IF k <= ShortTicks THEN k * ShortStep
    ELSE VisibilityTimeout + (k - ShortTicks - 1) * ShortStep

\* The clock advances; no invocation outlives ProcessorTimeout.
Tick ==
    /\ \E k \in 0..(MaxTicks - 1) : now = Instant(k) /\ now' = Instant(k + 1)
    /\ \A w \in Workers : Active(w) => now' - wk[w].started <= ProcessorTimeout
    /\ UNCHANGED <<ledger, events, blobs, queue, wk, hist>>

\* The ingest handler: parse and validate the client's event, serialise it,
\* store a large payload in S3, send the message to the queue.  Only the
\* accepted request (202) changes state beyond an orphaned S3 object.
\* The status code the handler answers with: 400 for a body that does not
\* parse or an event that does not validate, 500 when PutPayload or
\* SendEventMessage fails, 202 otherwise.
IngestStatus(body, t, fault) ==
    IF ~Unmarshal(body).ok \/ Validate(Unmarshal(body).event, t) # "" THEN 400
    ELSE IF fault # "none" THEN 500
    ELSE 202

SubmitWith_SendFirst(kind, eid, fault) ==
    /\ Len(queue) < MaxMsgs
    /\ now <= SubmitUntil
    /\ UNCHANGED <<now, ledger, events, wk>>
    /\ LET body == ClientBody(kind, eid)
           ev == Unmarshal(body).event
           payloadBytes == ToJSON(ev)
           useS3 == ShouldUseS3(Size(payloadBytes))
           key == S3Key(ev.event_id, now)
           msg == IngestMessage(ev, "c1", now)
       IN IF IngestStatus(body, now, fault) = 400
          THEN fault = "none" /\ UNCHANGED <<blobs, queue, hist>>
          ELSE /\ fault = "s3" => useS3
               /\ Fault(fault # "none")
               /\ blobs' = IF useS3 /\ fault = "none"
                           THEN [blobs EXCEPT ![key] = payloadBytes] ELSE blobs
               /\ queue' = IF fault # "sqs"
                           THEN Append(queue, Slot(msg, "visible", 0, 0)) ELSE queue

\* One run of the handler on the request (kind, eid) with the given failure
\* of its environment: "s3" (PutPayload fails; only a large payload is put),
\* "sqs" (SendEventMessage fails) or "none".
SubmitWith(kind, eid, fault) ==
    /\ Len(queue) < MaxMsgs
    /\ now <= SubmitUntil
    /\ UNCHANGED <<now, ledger, events, wk>>
    /\ LET body == ClientBody(kind, eid)
           ev == Unmarshal(body).event
           payloadBytes == ToJSON(ev)
           useS3 == ShouldUseS3(Size(payloadBytes))
           key == S3Key(ev.event_id, now)
           msg == IngestMessage(ev, "c1", now)
       IN IF IngestStatus(body, now, fault) = 400
          THEN fault = "none" /\ UNCHANGED <<blobs, queue, hist>>
          ELSE /\ fault = "s3" => useS3
               /\ Fault(fault # "none")
               /\ blobs' = IF useS3 /\ fault # "s3"
                           THEN [blobs EXCEPT ![key] = payloadBytes] ELSE blobs
               /\ queue' = IF fault = "none"
                           THEN Append(queue, Slot(msg, "visible", 0, 0)) ELSE queue

Submit(kind, eid) == \E fault \in {"none", "s3", "sqs"} : SubmitWith(kind, eid, fault)

\* uuid.New() for an event sent without event_id: an id no message carries.
NewEventId ==
    IF \A m \in MsgIds : queue[m].body.event_id # "g1" THEN "g1" ELSE "g2"

\* The requests of the API specification: a body, sent with event_id eid or
\* ("" ) without one, and the value of the X-Correlation-ID header ("" when
\* the request has none).
ApiKinds == {"garbage", "invalid", "small", "large"}
ApiRequests ==
    {[kind |-> k, event_id |-> e, header |-> h] :
        k \in ApiKinds, e \in {"e1", ""}, h \in {"", "h1"}}

IngestHandler_FreshHeader(req, fault) ==
    /\ Len(queue) < MaxMsgs
    /\ now <= SubmitUntil
    /\ \E g \in GenIds : \A m \in MsgIds : queue[m].body.event_id # g
    /\ UNCHANGED <<now, ledger, events, wk>>
    /\ LET body == ClientBody(req.kind, req.event_id)
           correlationID == "c1"
           parsed == Unmarshal(body).event
           ev == IF parsed.event_id = ""
                 THEN [parsed EXCEPT !.event_id = NewEventId] ELSE parsed
           payloadBytes == ToJSON(ev)
           useS3 == ShouldUseS3(Size(payloadBytes))
           status == IngestStatus(body, now, fault)
       IN /\ status = 400 => fault = "none"
          /\ fault = "s3" => useS3
          /\ MayFault(fault # "none")
          /\ hist' = [hist EXCEPT
                        !.faults = @ + (IF fault # "none" THEN 1 ELSE 0),
                        !.reply = [status |-> status,
                                   record |-> [event_id |-> IF status = 202
                                                            THEN ev.event_id ELSE "",
                                               correlation_id |-> correlationID]]]
          /\ blobs' = IF status # 400 /\ useS3 /\ fault # "s3"
                      THEN [blobs EXCEPT ![S3Key(ev.event_id, now)] = payloadBytes]
                      ELSE blobs
          /\ queue' = IF status = 202
                      THEN Append(queue, Slot(IngestMessage(ev, correlationID, now),
                                              "visible", 0, 0))
                      ELSE queue

\* The ingest handler on request req, with its response: the correlation id
\* is the header's or a new one, an event without event_id gets a new one,
\* and the response (status, event_id, X-Correlation-ID) is recorded in the
\* history.
IngestHandler(req, fault) ==
    /\ Len(queue) < MaxMsgs
    /\ now <= SubmitUntil
    /\ \E g \in GenIds : \A m \in MsgIds : queue[m].body.event_id # g
    /\ UNCHANGED <<now, ledger, events, wk>>
    /\ LET body == ClientBody(req.kind, req.event_id)
           correlationID == IF req.header = "" THEN "c1" ELSE req.header
           parsed == Unmarshal(body).event
           ev == IF parsed.event_id = ""
                 THEN [parsed EXCEPT !.event_id = NewEventId] ELSE parsed
           payloadBytes == ToJSON(ev)
           useS3 == ShouldUseS3(Size(payloadBytes))
           status == IngestStatus(body, now, fault)
       IN /\ status = 400 => fault = "none"
          /\ fault = "s3" => useS3
          /\ MayFault(fault # "none")
          /\ hist' = [hist EXCEPT
                        !.faults = @ + (IF fault # "none" THEN 1 ELSE 0),
                        !.reply = [status |-> status,
                                   record |-> [event_id |-> IF status = 202
                                                            THEN ev.event_id ELSE "",
                                               correlation_id |-> correlationID]]]
          /\ blobs' = IF status # 400 /\ useS3 /\ fault # "s3"
                      THEN [blobs EXCEPT ![S3Key(ev.event_id, now)] = payloadBytes]
                      ELSE blobs
          /\ queue' = IF status = 202
                      THEN Append(queue, Slot(IngestMessage(ev, correlationID, now),
                                              "visible", 0, 0))
                      ELSE queue

\* A producer other than ingest sends a message body to the queue.
Inject(kind, eid) ==
    /\ Len(queue) < MaxMsgs
    /\ now <= SubmitUntil
    /\ queue' = Append(queue, Slot(InjectedBody(kind, eid), "visible", 0, 0))
    /\ UNCHANGED <<now, ledger, events, blobs, wk, hist>>

\* SQS hands a batch of visible messages to an idle processor.
Receive(w, batch) ==
    /\ ~Active(w)
    /\ \A v \in Workers : ~Active(v) => Rank(w) <= Rank(v)
    /\ Len(batch) >= 1
    /\ \A i \in 1..Len(batch) : batch[i] \in MsgIds /\ queue[batch[i]].state = "visible"
    /\ \A i, j \in 1..Len(batch) : i # j => batch[i] # batch[j]
    /\ queue' = [i \in MsgIds |->
                   IF \E k \in 1..Len(batch) : batch[k] = i
                   THEN [queue[i] EXCEPT !.state = "inflight",
                                         !.receives = @ + 1,
                                         !.received_at = now]
                   ELSE queue[i]]
    /\ wk' = [wk EXCEPT ![w] = [IdleWorker EXCEPT !.pc = "handler",
                                  !.batch = batch, !.idx = 1, !.started = now]]
    /\ UNCHANGED <<now, ledger, events, blobs, hist>>

Redeliver_Early(m) ==
    /\ m \in MsgIds
    /\ queue[m].state = "inflight"
    /\ now - queue[m].received_at >= VisibilityTimeout
    /\ \A w \in Workers : Active(w) => ~InBatch(w, m)
    /\ queue' = [queue EXCEPT ![m] = Slot(@.body,
                   IF @.receives >= MaxReceiveCount - 1 THEN "dlq" ELSE "visible",
                   @.receives, 0)]
    /\ UNCHANGED <<now, ledger, events, blobs, wk, hist>>

\* The visibility timeout of an unacknowledged message expires: it is visible
\* again, or moved to the dead-letter queue after MaxReceiveCount receives.
Redeliver(m) ==
    /\ m \in MsgIds
    /\ queue[m].state = "inflight"
    /\ now - queue[m].received_at >= VisibilityTimeout
    /\ \A w \in Workers : Active(w) => ~InBatch(w, m)
    /\ queue' = [queue EXCEPT ![m] = Slot(@.body,
                   IF @.receives >= MaxReceiveCount THEN "dlq" ELSE "visible",
                   @.receives, 0)]
    /\ UNCHANGED <<now, ledger, events, blobs, wk, hist>>

\* handler loop body: parse the record; skip it when it does not parse, else
\* call ProcessMessage, whose first step is CheckAndMark.
Handler(w) ==
    /\ wk[w].pc = "handler"
    /\ UNCHANGED <<now, ledger, events, blobs, hist>>
    /\ IF ~ParseSQSEventMessage(CurMsg(w))
       THEN ReturnNil(w)
       ELSE /\ wk' = [wk EXCEPT ![w].pc = "cam_select"]
            /\ queue' = queue

\* CheckAndMark: BEGIN, SELECT ... FOR UPDATE and, for an existing row, the
\* decision, the UPDATE and the COMMIT (the row lock makes them one step).  A
\* statement of an aborted transaction fails.
CheckAndMarkSelect(w) ==
    /\ wk[w].pc = "cam_select"
    /\ UNCHANGED <<now, events, blobs, queue>>
    /\ LET eid == CurEvent(w)
           row == ledger[eid]
           dec == CheckAndMarkExisting(row, now)
       IN \E fault \in BOOLEAN :
            /\ Fault(fault)
            /\ IF fault \/ wk[w].tx_aborted
               THEN /\ wk' = [wk EXCEPT ![w].pc = "claimed", ![w].result = "error"]
                    /\ UNCHANGED ledger
               ELSE IF row.status = "absent"
               THEN /\ wk' = [wk EXCEPT ![w].pc = "cam_insert", ![w].seen = "absent"]
                    /\ UNCHANGED ledger
               ELSE /\ ledger' = [ledger EXCEPT ![eid] = dec.row]
                    /\ wk' = [wk EXCEPT ![w].pc = "claimed",
                                        ![w].seen = row.status,
                                        ![w].result = IF dec.already THEN "already"
                                                      ELSE "retry"]

\* CheckAndMark: INSERT of the new row and COMMIT; a failed INSERT restarts
\* the loop (at most MaxClaimLoop rounds) in the same, now aborted, transaction.
CheckAndMarkInsert(w) ==
    /\ wk[w].pc = "cam_insert"
    /\ UNCHANGED <<now, events, blobs, queue>>
    /\ LET eid == CurEvent(w)
       IN \E fault \in {"none", "insert", "commit"} :
            /\ IF InsertConflict(ledger[eid]) \/ fault # "none"
               THEN Fault(fault # "none")
               ELSE Fresh(eid)
            /\ IF InsertConflict(ledger[eid]) \/ fault = "insert"
               THEN /\ UNCHANGED ledger
                    /\ IF wk[w].loop + 1 < MaxClaimLoop
                       THEN wk' = [wk EXCEPT ![w].pc = "cam_select",
                                             ![w].loop = @ + 1,
                                             ![w].tx_aborted = TRUE]
                       ELSE wk' = [wk EXCEPT ![w].pc = "claimed",
                                             ![w].result = "error"]
               ELSE IF fault = "commit"
               THEN /\ wk' = [wk EXCEPT ![w].pc = "claimed", ![w].result = "error"]
                    /\ UNCHANGED ledger
               ELSE /\ ledger' = [ledger EXCEPT ![eid] = NewRow(now)]
                    /\ wk' = [wk EXCEPT ![w].pc = "claimed", ![w].result = "fresh"]

AfterClaim_NoSkip(w) ==
    /\ wk[w].pc = "claimed"
    /\ UNCHANGED <<now, ledger, events, blobs>>
    /\ IF wk[w].result = "error" THEN ReturnErr(w) /\ UNCHANGED hist
       ELSE /\ wk' = [wk EXCEPT ![w].pc = "fetch"]
            /\ queue' = queue
            /\ UNCHANGED hist

\* A caller that takes an error of CheckAndMark for "not processed yet".
AfterClaim_ErrorProceeds(w) ==
    /\ wk[w].pc = "claimed"
    /\ UNCHANGED <<now, ledger, events, blobs>>
    /\ IF wk[w].result = "already"
       THEN /\ ReturnNil(w)
            /\ hist' = Snap(hist, CurId(w), CurEvent(w), ledger, events)
       ELSE /\ wk' = [wk EXCEPT ![w].pc = "fetch"]
            /\ queue' = queue
            /\ UNCHANGED hist

\* process, step 1: act on what CheckAndMark returned.
AfterClaim(w) ==
    /\ wk[w].pc = "claimed"
    /\ UNCHANGED <<now, ledger, events, blobs>>
    /\ IF wk[w].result = "error" THEN ReturnErr(w) /\ UNCHANGED hist
       ELSE IF wk[w].result = "already"
       THEN /\ ReturnNil(w)
            /\ hist' = Snap(hist, CurId(w), CurEvent(w), ledger, events)
       ELSE /\ wk' = [wk EXCEPT ![w].pc = "fetch"]
            /\ queue' = queue
            /\ UNCHANGED hist

\* process, steps 2-4: fetch the payload, verify the hash, parse and validate.
\* The reason of a poison message, "" when the payload is good.
PoisonReason(msg, bytes, t) ==
    IF msg.payload_mode = "INLINE" /\ msg.payload_inline = NilBytes THEN "missing_payload"
    ELSE IF msg.payload_mode = "S3" /\ msg.s3_key = NoKey THEN "missing_s3_key"
    ELSE IF msg.payload_mode \notin {"INLINE", "S3"} THEN "invalid_payload_mode"
    ELSE IF SHA256(bytes) # msg.payload_sha256 THEN "hash_mismatch"
    ELSE IF ~Unmarshal(bytes).ok THEN "unmarshal_error"
    ELSE IF Validate(Unmarshal(bytes).event, t) # "" THEN "validation_error"
    ELSE ""

Fetch(w) ==
    /\ wk[w].pc = "fetch"
    /\ UNCHANGED <<now, ledger, events, blobs>>
    /\ LET msg == CurMsg(w)
           s3 == msg.payload_mode = "S3" /\ msg.s3_key # NoKey
           bytes == IF s3 THEN blobs[msg.s3_key] ELSE msg.payload_inline
           reason == PoisonReason(msg, bytes, now)
       IN \E fault \in BOOLEAN :
            /\ fault => s3
            /\ Fault(fault)
            /\ IF s3 /\ (fault \/ bytes = NilBytes)
               THEN ReturnErr(w)
               ELSE /\ queue' = queue
                    /\ IF reason # ""
                       THEN wk' = [wk EXCEPT ![w].pc = "fail_permanent",
                                             ![w].reason = reason]
                       ELSE wk' = [wk EXCEPT ![w].pc = "insert_event",
                                             ![w].payload = bytes]

\* The event is persisted under the event_id its payload carries.
BindEventID_Payload(event, msg) == event

\* event.EventID = sqsMsg.EventID
BindEventID(event, msg) == [event EXCEPT !.event_id = msg.event_id]

\* process, step 5: bind the message's event_id and persist the event.
PersistEvent(w) ==
    /\ wk[w].pc = "insert_event"
    /\ UNCHANGED <<now, ledger, blobs>>
    /\ LET msg == CurMsg(w)
           ev == BindEventID(Unmarshal(wk[w].payload).event, msg)
           key == IF msg.payload_mode = "S3" THEN msg.s3_key ELSE NoKey
           row == EventRow(ev, msg.correlation_id, msg.payload_mode, key)
       IN \E fault \in BOOLEAN :
            /\ Fault(fault)
            /\ IF fault \/ ~FitsColumns(row)
               THEN ReturnErr(w) /\ UNCHANGED events
               ELSE /\ events' = InsertEvent(events, row)
                    /\ wk' = [wk EXCEPT ![w].pc = "mark_success"]
                    /\ queue' = queue

\* process, step 6: MarkSuccess (a failure is logged and ignored), return nil.
MarkSuccess(w) ==
    /\ wk[w].pc = "mark_success"
    /\ UNCHANGED <<now, events, blobs>>
    /\ LET eid == CurEvent(w)
       IN /\ \E fault \in BOOLEAN :
               /\ MayFault(fault)
               /\ ledger' = IF fault THEN ledger
                            ELSE [ledger EXCEPT ![eid] = MarkSuccessRow(@, now)]
               /\ hist' = Snap([hist EXCEPT !.succeeded = @ \cup {eid},
                                             !.faults = @ + IF fault THEN 1 ELSE 0],
                               CurId(w), eid, ledger', events)
          /\ ReturnNil(w)

\* failPermanent: MarkFailed (its error is dropped), return nil.
FailPermanent(w) ==
    /\ wk[w].pc = "fail_permanent"
    /\ UNCHANGED <<now, events, blobs>>
    /\ LET eid == CurEvent(w)
           reason == wk[w].reason
       IN /\ \E fault \in BOOLEAN :
               /\ MayFault(fault)
               /\ ledger' = IF fault THEN ledger
                            ELSE [ledger EXCEPT ![eid] = MarkFailedRow(@, now, reason)]
               /\ hist' = Snap([hist EXCEPT !.faults = @ + IF fault THEN 1 ELSE 0],
                               CurId(w), eid, ledger', events)
          /\ ReturnNil(w)

\* The invocation dies (panic, out of memory, timeout) at any point.
Crash(w) ==
    /\ Active(w)
    /\ hist.crashes < hist.budget.crashes
    /\ wk' = [wk EXCEPT ![w] = IdleWorker]
    /\ hist' = [hist EXCEPT !.crashes = @ + 1]
    /\ UNCHANGED <<now, ledger, events, blobs, queue>>

Batches ==
    {<<i>> : i \in 1..MaxMsgs} \cup
    {b \in [1..2 -> 1..MaxMsgs] : MaxBatch >= 2 /\ b[1] # b[2]}

Next ==
    \/ Tick
    \/ \E r \in ClientRequests : Submit(r[1], r[2])
    \/ \E r \in InjectRequests : Inject(r[1], r[2])
    \/ \E w \in Workers, b \in Batches : Receive(w, b)
    \/ \E m \in 1..MaxMsgs : Redeliver(m)
    \/ \E w \in Workers : Handler(w)
    \/ \E w \in Workers : CheckAndMarkSelect(w)
    \/ \E w \in Workers : CheckAndMarkInsert(w)
    \/ \E w \in Workers : AfterClaim(w)
    \/ \E w \in Workers : Fetch(w)
    \/ \E w \in Workers : PersistEvent(w)
    \/ \E w \in Workers : MarkSuccess(w)
    \/ \E w \in Workers : FailPermanent(w)
    \/ \E w \in Workers : Crash(w)

Spec == Init /\ [][Next]_vars

\* The redrive policy at work: one event_id, no crash, up to RedriveFaults
\* transient faults, and a clock observed once per visibility timeout while
\* no invocation runs (an invocation lasts less than ProcessorTimeout).
LongTick ==
    /\ \A w \in Workers : ~Active(w)
    /\ now < MaxLongTicks * VisibilityTimeout
    /\ now' = now + VisibilityTimeout
    /\ UNCHANGED <<ledger, events, blobs, queue, wk, hist>>

RedriveInit == InitWith([faults |-> RedriveFaults, crashes |-> 0])

RedriveRequests == {"small", "large"} \X {"e1"}

RedriveNext ==
    \/ LongTick
    \/ \E r \in RedriveRequests : Submit(r[1], r[2])
    \/ Inject("hash_mismatch", "e1")
    \/ \E w \in Workers, b \in Batches : Receive(w, b)
    \/ \E m \in 1..MaxMsgs : Redeliver(m)
    \/ \E w \in Workers : Handler(w)
    \/ \E w \in Workers : CheckAndMarkSelect(w)
    \/ \E w \in Workers : CheckAndMarkInsert(w)
    \/ \E w \in Workers : AfterClaim(w)
    \/ \E w \in Workers : Fetch(w)
    \/ \E w \in Workers : PersistEvent(w)
    \/ \E w \in Workers : MarkSuccess(w)
    \/ \E w \in Workers : FailPermanent(w)

RedriveSpec == RedriveInit /\ [][RedriveNext]_vars

\* The ingest handler alone, on every request body of IngestRequests.
IngestNext == \E r \in IngestRequests : Submit(r[1], r[2])

IngestSpec == Init /\ [][IngestNext]_vars

\* db.GetEventByID: the row of eventID, ErrNotFound when there is none, another
\* error when the query fails.
GetEventByID_Zero(tbl, eventID, fault) ==
    IF fault THEN [err |-> "query", record |-> <<>>]
    ELSE [err |-> "",
          record |-> IF RowsOf(tbl, eventID) = {} THEN <<>>
                     ELSE tbl[CHOOSE i \in RowsOf(tbl, eventID) : TRUE]]

GetEventByID(tbl, eventID, fault) ==
    IF fault THEN [err |-> "query", record |-> <<>>]
    ELSE IF RowsOf(tbl, eventID) = {} THEN [err |-> "ErrNotFound", record |-> <<>>]
    ELSE [err |-> "", record |-> tbl[CHOOSE i \in RowsOf(tbl, eventID) : TRUE]]

\* The requests to the query handler: GET /health, and GET /events/{event_id}
\* with an event_id or without one.
QueryRequests ==
    {[path |-> "/health", event_id |-> ""]} \cup
    {[path |-> "/events", event_id |-> e] : e \in EventIds \cup {""}}

\* The query handler on request req: its response is recorded in the history.
QueryHandler(req) ==
    /\ UNCHANGED <<now, ledger, events, blobs, queue, wk>>
    /\ \E fault \in BOOLEAN :
         LET got == GetEventByID(events, req.event_id, fault)
             reply == IF req.path = "/health" THEN [status |-> 200, record |-> <<>>]
                      ELSE IF req.event_id = "" THEN [status |-> 400, record |-> <<>>]
                      ELSE IF got.err = "ErrNotFound" THEN [status |-> 404, record |-> <<>>]
                      ELSE IF got.err # "" THEN [status |-> 500, record |-> <<>>]
                      ELSE [status |-> 200, record |-> got.record]
         IN /\ fault => req.path # "/health" /\ req.event_id # ""
            /\ MayFault(fault)
            /\ hist' = [hist EXCEPT !.reply = reply,
                                    !.faults = @ + IF fault THEN 1 ELSE 0]

\* Ingest, processor and query handler, with one fault and no crash.
QueryInit == InitWith([faults |-> MaxFaults, crashes |-> 0])
QueryNext ==
    \/ \E r \in ClientRequests : Submit(r[1], r[2])
    \/ Inject("hash_mismatch", "e1")
    \/ \E w \in Workers, b \in Batches : Receive(w, b)
    \/ \E w \in Workers : Handler(w)
    \/ \E w \in Workers : CheckAndMarkSelect(w)
    \/ \E w \in Workers : CheckAndMarkInsert(w)
    \/ \E w \in Workers : AfterClaim(w)
    \/ \E w \in Workers : Fetch(w)
    \/ \E w \in Workers : PersistEvent(w)
    \/ \E w \in Workers : MarkSuccess(w)
    \/ \E w \in Workers : FailPermanent(w)
    \/ \E req \in QueryRequests : QueryHandler(req)
QuerySpec == QueryInit /\ [][QueryNext]_vars

\* The ledger alone: any caller may call CheckAndMark, MarkSuccess and
\* MarkFailed for any event_id at any time, in any order.
LedgerClaim(e) ==
    /\ ledger[e].attempts < MaxAttempts
    /\ ledger' = [ledger EXCEPT ![e] = IF @.status = "absent" THEN NewRow(now)
                                       ELSE CheckAndMarkExisting(@, now).row]
    /\ UNCHANGED <<now, events, blobs, queue, wk, hist>>

LedgerMarkSuccess(e) ==
    /\ ledger' = [ledger EXCEPT ![e] = MarkSuccessRow(@, now)]
    /\ UNCHANGED <<now, events, blobs, queue, wk, hist>>

LedgerMarkFailed(e) ==
    /\ ledger' = [ledger EXCEPT ![e] = MarkFailedRow(@, now, "hash_mismatch")]
    /\ UNCHANGED <<now, events, blobs, queue, wk, hist>>

LedgerNext ==
    \/ Tick
    \/ \E e \in EventIds : LedgerClaim(e)
    \/ \E e \in EventIds : LedgerMarkSuccess(e)
    \/ \E e \in EventIds : LedgerMarkFailed(e)
LedgerSpec == Init /\ [][LedgerNext]_vars

\* The events table alone: InsertEvent is called with any of the rows of
\* InsertRows, in any order; its result (200 for nil, 500 for an error) is
\* recorded in the history.
InsertRows ==
    {EventRow([Event(e, a, 1, 100) EXCEPT !.currency = c], k, mode, NoKey) :
        e \in {"e1", "e2"}, a \in {10, 20}, c \in {"USD", "USDT"},
        k \in {"c1", "c2"}, mode \in {"INLINE", "S3"}}

DbInsertEvent(row) ==
    /\ events' = IF FitsColumns(row) THEN InsertEvent(events, row) ELSE events
    /\ hist' = [hist EXCEPT !.reply = [status |-> IF FitsColumns(row) THEN 200 ELSE 500,
                                       record |-> row]]
    /\ UNCHANGED <<now, ledger, blobs, queue, wk>>

InsertNext == \E row \in InsertRows : DbInsertEvent(row)
InsertSpec == Init /\ [][InsertNext]_vars

\* Ingest with its responses, other producers and the processor, with one
\* fault and no crash.
ApiFaults == {"none", "s3", "sqs"}
ApiInjects == {"hash_mismatch", "other_id", "no_id"}
ApiInit == InitWith([faults |-> MaxFaults, crashes |-> 0])
ApiNext ==
    \/ \E req \in ApiRequests, f \in ApiFaults : IngestHandler(req, f)
    \/ \E k \in ApiInjects : Inject(k, "e1")
    \/ \E w \in Workers, b \in Batches : Receive(w, b)
    \/ \E w \in Workers : Handler(w)
    \/ \E w \in Workers : CheckAndMarkSelect(w)
    \/ \E w \in Workers : CheckAndMarkInsert(w)
    \/ \E w \in Workers : AfterClaim(w)
    \/ \E w \in Workers : Fetch(w)
    \/ \E w \in Workers : PersistEvent(w)
    \/ \E w \in Workers : MarkSuccess(w)
    \/ \E w \in Workers : FailPermanent(w)
ApiSpec == ApiInit /\ [][ApiNext]_vars

\* Ingest and processor on the requests of ValidateRequests, without faults
\* and crashes.
ValidateInit == InitWith([faults |-> 0, crashes |-> 0])
ValidateNext ==
    \/ Tick
    \/ \E r \in ValidateRequests : Submit(r[1], r[2])
    \/ Inject("hash_mismatch", "e1")
    \/ \E w \in Workers, b \in Batches : Receive(w, b)
    \/ \E m \in 1..MaxMsgs : Redeliver(m)
    \/ \E w \in Workers : Handler(w)
    \/ \E w \in Workers : CheckAndMarkSelect(w)
    \/ \E w \in Workers : CheckAndMarkInsert(w)
    \/ \E w \in Workers : AfterClaim(w)
    \/ \E w \in Workers : Fetch(w)
    \/ \E w \in Workers : PersistEvent(w)
    \/ \E w \in Workers : MarkSuccess(w)
    \/ \E w \in Workers : FailPermanent(w)

ValidateSpec == ValidateInit /\ [][ValidateNext]_vars

\* The processor on record bodies that do not parse (no JSON, or a required
\* field missing) next to a valid message or one with a wrong digest, with one
\* fault and no crash.
ParseInjects ==
    {"malformed", "no_event_id", "no_correlation", "no_digest", "hash_mismatch"}
ParseInit == InitWith([faults |-> MaxFaults, crashes |-> 0])
ParseNext ==
    \/ Tick
    \/ Submit("small", "e1")
    \/ \E k \in ParseInjects : Inject(k, "e1")
    \/ \E w \in Workers, b \in Batches : Receive(w, b)
    \/ \E m \in 1..MaxMsgs : Redeliver(m)
    \/ \E w \in Workers : Handler(w)
    \/ \E w \in Workers : CheckAndMarkSelect(w)
    \/ \E w \in Workers : CheckAndMarkInsert(w)
    \/ \E w \in Workers : AfterClaim(w)
    \/ \E w \in Workers : Fetch(w)
    \/ \E w \in Workers : PersistEvent(w)
    \/ \E w \in Workers : MarkSuccess(w)
    \/ \E w \in Workers : FailPermanent(w)

ParseSpec == ParseInit /\ [][ParseNext]_vars

\* Event.Validate alone: it is called at any clock reading on the events of
\* ValidatorEvents, which put every field on, next to and off its bound; the
\* event, the clock reading and the error are recorded in the history.
ValidatorEvents(t) ==
    {[Event("e1", a, ts, 100) EXCEPT !.user_id = u, !.currency = c,
                                     !.merchant = m, !.nmeta = n] :
        a \in {0 - 1, 0, 10},
        ts \in {ZeroTime, t, t + FutureDrift - 1, t + FutureDrift,
                t + FutureDrift + 1, t + FutureDrift + ShortStep},
        u \in {"", "u1"}, c \in {"", "USD"}, m \in {"", "m1"},
        n \in {0, MaxMetadataKeys, MaxMetadataKeys + 1}}

ValidateCall(e) ==
    /\ hist' = [hist EXCEPT !.reply =
                  [status |-> IF ValidationError(e, now) = NoError THEN 200 ELSE 400,
                   record |-> [event |-> e, at |-> now,
                               err |-> ValidationError(e, now)]]]
    /\ UNCHANGED <<now, ledger, events, blobs, queue, wk>>

ValidatorNext ==
    \/ Tick
    \/ \E e \in ValidatorEvents(now) : ValidateCall(e)

ValidatorSpec == Init /\ [][ValidatorNext]_vars


\* ------------------------------------------------------------- properties

\* A worker holds the claim on e: CheckAndMark returned fresh or retry to it
\* and it has neither committed nor died.
Holding(w, e) ==
    /\ wk[w].pc \in {"claimed", "fetch", "insert_event", "mark_success", "fail_permanent"}
    /\ wk[w].result \in {"fresh", "retry"}
    /\ CurEvent(w) = e

\* w begins a CheckAndMark call on e in this state and the call returns in the
\* next one.
ClaimReturns(w, e) ==
    /\ wk[w].pc = "cam_select"
    /\ wk[w].loop = 0
    /\ CurEvent(w) = e
    /\ wk'[w].pc = "claimed"

\* The call failed on a database fault and changed nothing.
ClaimFailed(w, e) ==
    /\ wk'[w].result = "error"
    /\ hist'.faults > hist.faults
    /\ ledger'[e] = ledger[e]

\* C1: the events table holds at most one row per event_id, and exactly one
\* for every event_id whose processing returned on the success path.
C1_OneRowPerEvent ==
    \A e \in EventIds :
        /\ Cardinality(RowsOf(events, e)) <= 1
        /\ e \in hist.succeeded => Cardinality(RowsOf(events, e)) = 1

\* C1 witness: an event already processed successfully is persisted again by
\* a retry, and the table still holds one row for it.
C1_Witness ==
    \E w \in Workers :
        /\ wk[w].pc = "mark_success"
        /\ wk[w].result = "retry"
        /\ CurEvent(w) \in hist.succeeded
        /\ Cardinality(RowsOf(events, CurEvent(w))) = 1

C3_SingleHolder ==
    \A e \in EventIds : Cardinality({w \in Workers : Holding(w, e)}) <= 1

\* C3 witness: one worker holds the claim on an event while another worker's
\* claim on the same event has just been turned away.
C3_Witness ==
    \E w, v \in Workers :
        /\ w # v
        /\ wk[v].pc = "claimed"
        /\ wk[v].result = "already"
        /\ wk[v].seen = "processing"
        /\ Holding(w, CurEvent(v))


\* C4: callers racing CheckAndMark on an event_id without a row: the row is
\* created exactly once and exactly one call ever returns fresh for it; a
\* racer gets fresh or an error, and when no fault was injected a racer that
\* has returned finds the row created.
C4_RaceOneWinner ==
    /\ \A e \in EventIds :
         hist.fresh[e] = IF ledger[e].status = "absent" THEN 0 ELSE 1
    /\ \A w \in Workers :
         (wk[w].pc = "claimed" /\ wk[w].seen = "absent") =>
           /\ wk[w].result \in {"fresh", "error"}
           /\ hist.faults = 0 => ledger[CurEvent(w)].status # "absent"

\* C4 witness: both workers raced on the same absent row without any fault;
\* one returned fresh, the other an error, and the row exists once.
C4_Witness ==
    \E w, v \in Workers :
        /\ w # v
        /\ hist.faults = 0
        /\ wk[w].pc = "claimed" /\ wk[w].seen = "absent" /\ wk[w].result = "fresh"
        /\ wk[v].pc = "claimed" /\ wk[v].seen = "absent" /\ wk[v].result = "error"
        /\ CurEvent(w) = CurEvent(v)
        /\ ledger[CurEvent(w)] = NewRow(now)

ReturnsNil(w) ==
    /\ wk[w].pc \in {"claimed", "mark_success", "fail_permanent"}
    /\ \/ wk'[w].pc = "handler" /\ wk'[w].idx = wk[w].idx + 1
       \/ wk'[w].pc = "idle" /\ queue'[CurId(w)].state = "deleted"

\* The handler of w returns in this step and its batch is, or is not, deleted.
Acked(w) == Active(w) /\ wk'[w].pc = "idle" /\ queue'[wk[w].batch[1]].state = "deleted"
Nacked(w) == Active(w) /\ wk'[w].pc = "idle" /\ queue'[wk[w].batch[1]].state # "deleted"

C10_StaleRetry ==
    [][\A e \in EventIds, w \in Workers :
         /\ Holding(w, e) => ledger[e].status = "processing"
         /\ (Holding(w, e) /\ Crash(w)) => ledger'[e] = ledger[e]
         /\ (/\ ClaimReturns(w, e)
             /\ ledger[e].status = "processing"
             /\ now - ledger[e].last_seen_at >= LivenessWindow) =>
              \/ /\ wk'[w].result = "retry"
                 /\ ledger'[e] = [ledger[e] EXCEPT !.last_seen_at = now,
                                                   !.attempts = @ + 1]
              \/ ClaimFailed(w, e)]_vars

\* C10 witness: after a crash of the holder, the redelivered message's claim,
\* exactly LivenessWindow seconds or more after the first, has returned retry.
C10_Witness ==
    \E w \in Workers :
        /\ hist.crashes = 1 /\ hist.faults = 0
        /\ wk[w].pc = "claimed"
        /\ wk[w].result = "retry"
        /\ wk[w].seen = "processing"
        /\ queue[CurId(w)].receives = 2
        /\ ledger[CurEvent(w)] = Row("processing", now, 2, "")


\* No invocation is running and every message on the queue has been deleted.
Quiescent ==
    /\ \A w \in Workers : ~Active(w)
    /\ \A m \in MsgIds : queue[m].state = "deleted"

\* The queue holds two messages, both built by ingest from the same valid
\* event with event_id e.
TwoSubmitsOf(e) ==
    /\ Len(queue) = 2
    /\ queue[1].body = queue[2].body
    /\ \E k \in {"small", "large"} :
         queue[1].body = IngestMessage(Unmarshal(ClientBody(k, e)).event, "c1", 0)

\* C7: after two submits of the same event, once both messages have been
\* processed and deleted the events table holds at most one row for the
\* event_id and the ledger status is 'success'.
C7_Converges ==
    \A e \in EventIds :
        (TwoSubmitsOf(e) /\ Quiescent) =>
          /\ Cardinality(RowsOf(events, e)) <= 1
          /\ ledger[e].status = "success"

OnlySubmitsOf(e) ==
    /\ \E m \in MsgIds : queue[m].body.event_id = e
    /\ \A m \in MsgIds :
         queue[m].body.event_id = e =>
           \E k \in {"small", "large"} :
             queue[m].body = IngestMessage(Unmarshal(ClientBody(k, e)).event, "c1", 0)

\* C9: when the events row of e exists and the ledger row is still
\* 'processing' (the worker died between InsertEvent and MarkSuccess), the
\* next claim returns retry or already-processed (or fails on a fault); the
\* retry's InsertEvent leaves the table as it is, its MarkSuccess makes the
\* row 'success' and ProcessMessage returns nil; and when no fault occurred,
\* once all messages are deleted there is exactly one events row and the
\* ledger row is 'success'.
C9_CrashAfterInsert ==
    /\ [][\A w \in Workers, e \in EventIds :
            /\ (/\ ClaimReturns(w, e)
                /\ ledger[e].status = "processing"
                /\ RowsOf(events, e) # {}) =>
                 \/ wk'[w].result \in {"retry", "already"}
                 \/ ClaimFailed(w, e)
            /\ (/\ wk[w].pc = "insert_event" /\ CurEvent(w) = e
                /\ wk'[w].pc = "mark_success"
                /\ RowsOf(events, e) # {}) => events' = events
            /\ (/\ wk[w].pc = "mark_success" /\ CurEvent(w) = e
                /\ hist'.faults = hist.faults
                /\ hist'.crashes = hist.crashes
                /\ wk'[w].pc # "mark_success") =>
                 /\ ReturnsNil(w)
                 /\ ledger'[e].status = "success"
                 /\ Cardinality(RowsOf(events', e)) = 1]_vars
    /\ [](\A e \in EventIds :
            (hist.faults = 0 /\ OnlySubmitsOf(e) /\ Quiescent) =>
              /\ Cardinality(RowsOf(events, e)) = 1
              /\ ledger[e].status = "success")

\* C9 witness: after a crash and without any fault, the redelivered message's
\* claim returned retry, its InsertEvent found the row of the dead worker and
\* changed nothing, and MarkSuccess is about to run.
C9_Witness ==
    \E w \in Workers :
        /\ hist.crashes = 1 /\ hist.faults = 0
        /\ wk[w].pc = "mark_success"
        /\ wk[w].result = "retry"
        /\ queue[CurId(w)].receives = 2
        /\ Cardinality(RowsOf(events, CurEvent(w))) = 1
        /\ ledger[CurEvent(w)].status = "processing"

\* No worker holds the claim on e although its row is 'processing': the
\* attempt that claimed it never committed.
Abandoned(e) ==
    /\ ledger[e].status = "processing"
    /\ \A v \in Workers : ~Holding(v, e)

C12_PoisonMarkedFailed ==
    [][\A w \in Workers :
         (ReturnsNil(w) /\ wk[w].pc = "fail_permanent") =>
           ledger'[CurEvent(w)].status = "failed"]_vars

\* The bytes process materializes for the current message of w.
Materialized(w) ==
    IF CurMsg(w).payload_mode = "S3" /\ CurMsg(w).s3_key # NoKey
    THEN blobs[CurMsg(w).s3_key]
    ELSE CurMsg(w).payload_inline

\* C13: a message whose materialized bytes do not hash to its payload_sha256
\* is claimed ('processing'), takes the poison path with reason
\* hash_mismatch, ProcessMessage returns nil for it with the ledger row
\* 'failed' and the events table untouched; and every row added to the events
\* table comes from bytes whose digest matched the message's.
C13_HashMismatchPoisoned ==
    [][\A w \in Workers :
         /\ (/\ wk[w].pc = "fetch" /\ wk'[w].pc # "fetch"
             /\ hist'.crashes = hist.crashes /\ hist'.faults = hist.faults
             /\ Materialized(w) # NilBytes
             /\ CurMsg(w).payload_mode \in {"INLINE", "S3"}
             /\ SHA256(Materialized(w)) # CurMsg(w).payload_sha256) =>
              /\ ledger[CurEvent(w)].status = "processing"
              /\ wk'[w].pc = "fail_permanent"
              /\ wk'[w].reason = "hash_mismatch"
         /\ (/\ wk[w].pc = "fail_permanent" /\ wk[w].reason = "hash_mismatch"
             /\ wk'[w].pc # "fail_permanent"
             /\ hist'.crashes = hist.crashes) =>
              /\ ReturnsNil(w)
              /\ ledger'[CurEvent(w)].status = "failed"
              /\ ledger'[CurEvent(w)].error_reason = "hash_mismatch"
              /\ events' = events
         /\ (wk[w].pc = "insert_event" /\ events' # events) =>
              SHA256(wk[w].payload) = CurMsg(w).payload_sha256]_vars

\* C14: a processing whose CheckAndMark returned already-processed returns nil
\* at once and changes neither the ledger nor the events table nor the bucket:
\* no worker is ever past the claim with that result; and when the row seen
\* was 'success' the events table holds, before and after, exactly one row for
\* the event_id.
C14_AlreadyDoneNoEffects ==
    /\ [][\A w \in Workers :
            (/\ wk[w].pc = "claimed" /\ wk[w].result = "already"
             /\ wk'[w].pc # "claimed"
             /\ hist'.crashes = hist.crashes) =>
              /\ ReturnsNil(w)
              /\ ledger' = ledger /\ events' = events /\ blobs' = blobs
              /\ wk[w].seen = "success" =>
                   /\ ledger'[CurEvent(w)].status = "success"
                   /\ Cardinality(RowsOf(events', CurEvent(w))) = 1]_vars
    /\ [](\A w \in Workers :
            wk[w].pc \in {"fetch", "insert_event", "mark_success", "fail_permanent"} =>
              wk[w].result \in {"fresh", "retry"})

\* C14 witness: the message of an event whose row is 'success' has been
\* delivered a second time and its claim has returned already-processed.
C14_Witness ==
    \E w \in Workers :
        /\ wk[w].pc = "claimed"
        /\ wk[w].result = "already"
        /\ wk[w].seen = "success"
        /\ queue[CurId(w)].receives = 2
        /\ hist.snap[CurId(w)].status = "success"
        /\ Cardinality(RowsOf(events, CurEvent(w))) = 1

\* The handler runs on request r with failure f in this step.
Submits(r, f) == SubmitWith(r[1], r[2], f)
IngestFaults == {"none", "s3", "sqs"}

\* The bytes the handler serialises for request r, and the last message sent.
PayloadOf(r) == ToJSON(Unmarshal(ClientBody(r[1], r[2])).event)
Sent == queue'[Len(queue')].body

\* C15: every message the handler sends for a payload of at most
\* MaxInlineSize bytes is INLINE, carries the payload and no s3_key, and no
\* object is put; every message it sends for a larger payload is S3, carries
\* the key under which the payload was put and no inline payload.  The digest
\* is always present and exactly one of payload_inline / s3_key is set.
C15_PayloadDisposition ==
    [][\A r \in IngestRequests, f \in IngestFaults :
         (Submits(r, f) /\ Len(queue') = Len(queue) + 1) =>
           /\ Sent.payload_sha256 # NoDigest
           /\ (Sent.payload_inline = NilBytes) # (Sent.s3_key = NoKey)
           /\ Size(PayloadOf(r)) <= MaxInlineSize =>
                /\ Sent.payload_mode = "INLINE"
                /\ Sent.payload_inline = PayloadOf(r)
                /\ Sent.s3_key = NoKey
                /\ blobs' = blobs
           /\ Size(PayloadOf(r)) > MaxInlineSize =>
                /\ Sent.payload_mode = "S3"
                /\ Sent.payload_inline = NilBytes
                /\ Sent.s3_key # NoKey
                /\ blobs'[Sent.s3_key] = PayloadOf(r)]_vars

\* C15 witness: the queue holds an INLINE message whose payload has exactly
\* MaxInlineSize bytes and an S3 message whose object has one byte more.
C15_Witness ==
    \E i, j \in MsgIds :
        /\ queue[i].body.payload_mode = "INLINE"
        /\ Size(queue[i].body.payload_inline) = MaxInlineSize
        /\ queue[j].body.payload_mode = "S3"
        /\ queue[j].body.s3_key # NoKey
        /\ Size(blobs[queue[j].body.s3_key]) = MaxInlineSize + 1

\* The bytes a processor would materialize now for message body b.
BytesFor(b) ==
    IF b.payload_mode = "S3" /\ b.s3_key # NoKey THEN blobs[b.s3_key]
    ELSE b.payload_inline

\* C16: after any sequence of runs of the ingest handler, the bytes a
\* processor materializes for any message the handler sent hash to the
\* message's payload_sha256.
C16_DigestMatches ==
    \A m \in MsgIds : SHA256(BytesFor(queue[m].body)) = queue[m].body.payload_sha256

\* C17: a run of the ingest handler sends a message exactly when it answers
\* 202, and then exactly one, putting at most one object; a run that answers
\* 400 sends nothing and puts nothing; a run whose PutPayload fails sends
\* nothing.
C17_EnqueueIffAccepted ==
    [][\A r \in IngestRequests, f \in IngestFaults :
         Submits(r, f) =>
           LET status == IngestStatus(ClientBody(r[1], r[2]), now, f) IN
           /\ status = 202 <=> queue' # queue
           /\ status = 202 =>
                /\ Len(queue') = Len(queue) + 1
                /\ \A m \in MsgIds : queue'[m] = queue[m]
                /\ Sent.event_id = r[2]
                /\ Cardinality({k \in Keys : blobs'[k] # blobs[k]}) <= 1
           /\ status = 400 => blobs' = blobs
           /\ f = "s3" => queue' = queue /\ blobs' = blobs]_vars

\* C17 witness: one run was accepted and its message is on the queue, another
\* run failed after validation and left no message.
C17_Witness ==
    /\ Len(queue) = 1
    /\ hist.faults = 1
    /\ queue[1].body.payload_mode = "S3"
    /\ blobs[queue[1].body.s3_key] # NilBytes

\* Message body b is a permanent failure: it does not parse, or the checks of
\* process reject its payload.
Permanent(b) ==
    \/ ~ParseSQSEventMessage(b)
    \/ PoisonReason(b, BytesFor(b), now) # ""

AckedAsPoison(m) == hist.snap[m].status = "failed"

\* C19: once a message was acknowledged as poison it is not received again,
\* and no invocation working on it moves the ledger row of its event_id from
\* 'failed' to 'processing' or changes the row's attempts.
C19_PoisonNeverReprocessed ==
    [][\A m \in MsgIds :
         AckedAsPoison(m) =>
           /\ queue'[m].receives = queue[m].receives
           /\ \A w \in Workers :
                (Active(w) /\ CurId(w) = m /\ wk'[w] # wk[w]) =>
                  LET e == queue[m].body.event_id IN
                  /\ ~(ledger[e].status = "failed" /\ ledger'[e].status = "processing")
                  /\ ledger'[e].attempts = ledger[e].attempts]_vars

\* C20: when the handler returns the error of one record, every record of
\* the batch has been handled in that invocation and the records handled
\* before it, for which ProcessMessage returned nil, are deleted and not
\* redelivered.
C20_RecordsIndependent ==
    [][\A w \in Workers :
         (Nacked(w) /\ hist'.crashes = hist.crashes) =>
           /\ wk[w].idx = Len(wk[w].batch)
           /\ \A k \in 1..(wk[w].idx - 1) :
                queue'[wk[w].batch[k]].state = "deleted"]_vars

\* The constraints of an event at time t, as the specification lists them.
Constraints(e, t) ==
    /\ e.user_id # "" /\ e.currency # "" /\ e.merchant # ""
    /\ e.amount > 0
    /\ e.timestamp # ZeroTime /\ e.timestamp <= t + FutureDrift
    /\ e.nmeta <= MaxMetadataKeys

\* Message m was built by the ingest handler: its digest is the digest of the
\* payload it carries or points to.
BuiltByIngest(m) ==
    /\ ParseSQSEventMessage(queue[m].body)
    /\ BytesFor(queue[m].body) # NilBytes
    /\ SHA256(BytesFor(queue[m].body)) = queue[m].body.payload_sha256

\* The handler accepts a request body that parses exactly when its event
\* meets every constraint.
C21_ValidateIffConstraints ==
    [][\A r \in ValidateRequests, f \in IngestFaults :
         Submits(r, f) =>
           LET u == Unmarshal(ClientBody(r[1], r[2])) IN
           (IngestStatus(ClientBody(r[1], r[2]), now, f) # 400)
             <=> (u.ok /\ Constraints(u.event, now))]_vars

\* C21: Validate accepts exactly the events that meet every constraint, and
\* the processor never rejects a message built by ingest for the field values
\* of its event: it is not marked validation_error, and without a fault the
\* events INSERT does not fail.
C21_ValidationTotal ==
    /\ C21_ValidateIffConstraints
    /\ [][\A w \in Workers :
            (Active(w) /\ wk[w].pc \in {"fetch", "insert_event"}
               /\ BuiltByIngest(CurId(w)) /\ hist'.faults = hist.faults
               /\ hist'.crashes = hist.crashes) =>
              /\ wk'[w].reason # "validation_error"
              /\ ~Nacked(w)]_vars

\* The query handler answers request req in this step.
Answers(req) ==
    /\ hist'.reply # hist.reply
    /\ \E fault \in BOOLEAN :
         /\ hist'.faults = hist.faults + (IF fault THEN 1 ELSE 0)
         /\ QueryHandler(req)

\* C22: a query for an event_id changes neither the events table nor the
\* ledger; it answers 200 with the stored row when events holds a row of that
\* event_id, 404 when it holds none, and 500 when the store fails.
C22_ReadOnlyGet ==
    [][\A req \in QueryRequests :
         (Answers(req) /\ req.path = "/events" /\ req.event_id # "") =>
           /\ events' = events /\ ledger' = ledger
           /\ blobs' = blobs /\ queue' = queue
           /\ IF hist'.faults > hist.faults
              THEN hist'.reply.status = 500
              ELSE IF \E i \in 1..Len(events) : events[i].event_id = req.event_id
              THEN /\ hist'.reply.status = 200
                   /\ \E i \in 1..Len(events) : events[i] = hist'.reply.record
                   /\ hist'.reply.record.event_id = req.event_id
              ELSE hist'.reply.status = 404]_vars

\* C22 witness: the processor persisted and committed e1, and the last query
\* returned its row.
C22_Witness ==
    /\ hist.reply.status = 200
    /\ hist.reply.record # <<>>
    /\ hist.reply.record.event_id = "e1"
    /\ ledger["e1"].status = "success"

Allowed(old, new) ==
    \/ old.status = "absent" /\ new.status = "processing" /\ new.attempts = 1
    \/ old.status = "processing" /\ new.status = "success"
         /\ new.attempts = old.attempts
    \/ old.status = "processing" /\ new.status = "failed"
         /\ new.attempts = old.attempts
    \/ old.status \in {"processing", "failed"} /\ new.status = "processing"
         /\ new.attempts = old.attempts + 1
    \/ old.status = "success" /\ new.status = "success"
         /\ new.attempts = old.attempts

C25_SuccessImpliesPersisted ==
    \A e \in AllIds : ledger[e].status = "success" => RowsOf(events, e) # {}

\* C25 witness: e1 is committed 'success' and its event is stored once.
C25_Witness ==
    /\ ledger["e1"].status = "success"
    /\ Cardinality(RowsOf(events, "e1")) = 1
    /\ "e1" \in hist.succeeded

\* C26: the rows of events never change, and an InsertEvent for an event_id
\* that has a row returns nil and leaves the table as it is, whatever the
\* values of the row it is called with.
C26_InsertNoOp ==
    [][/\ \A i \in 1..Len(events) : i <= Len(events') /\ events'[i] = events[i]
       /\ \A row \in InsertRows :
            (DbInsertEvent(row) /\ RowsOf(events, row.event_id) # {}) =>
              /\ events' = events
              /\ hist'.reply.status = 200]_vars

\* C27: the event_id a 202 response returns is the event_id of the message
\* sent, the caller's when the request had one; the processor touches the
\* ledger row of the message's event_id only, and the row it inserts into
\* events has the message's event_id, whatever event_id the payload carries.
C27_EventIdCarried ==
    [][/\ \A req \in ApiRequests, f \in ApiFaults :
            (IngestHandler(req, f) /\ hist'.reply.status = 202) =>
              /\ Sent.event_id = hist'.reply.record.event_id
              /\ req.event_id # "" => Sent.event_id = req.event_id
              /\ req.event_id = "" => Sent.event_id \in GenIds
       /\ \A w \in Workers :
            (Active(w) /\ wk'[w] # wk[w] /\ wk[w].pc # "handler") =>
              /\ \A e \in AllIds : e # CurEvent(w) => ledger'[e] = ledger[e]
              /\ Len(events') > Len(events) =>
                   /\ events'[Len(events')].event_id = CurEvent(w)
                   /\ ledger[CurEvent(w)].status # "absent"]_vars

\* C27 witness: a message for e1 whose payload carries another event_id (e2,
\* or none) was persisted and committed under e1, and nothing exists for e2.
C27_Witness ==
    /\ \E m \in MsgIds :
         /\ queue[m].body.event_id = "e1"
         /\ queue[m].body.payload_inline # NilBytes
         /\ queue[m].body.payload_inline.event.event_id # "e1"
         /\ queue[m].state = "deleted"
    /\ RowsOf(events, "e1") # {} /\ ledger["e1"].status = "success"
    /\ \A i \in RowsOf(events, "e1") : events[i].correlation_id = "c2"
    /\ RowsOf(events, "e2") = {} /\ ledger["e2"].status = "absent"

\* C28: the message ingest sends carries, in its body and as its transport
\* attribute, the correlation id of the response (the request header's, or a
\* generated one); the row the processor inserts for a message has the
\* message's correlation id, and every stored row has the correlation id of
\* a message of its event_id.
C28_CorrelationCarried ==
    /\ [][/\ \A req \in ApiRequests, f \in ApiFaults :
               (IngestHandler(req, f) /\ hist'.reply.status = 202) =>
                 /\ Sent.correlation_id = hist'.reply.record.correlation_id
                 /\ MessageAttributes(Sent).correlation_id = Sent.correlation_id
                 /\ req.header # "" => Sent.correlation_id = req.header
          /\ \A w \in Workers :
               (Active(w) /\ wk'[w] # wk[w] /\ Len(events') > Len(events)) =>
                 events'[Len(events')].correlation_id = CurMsg(w).correlation_id]_vars
    /\ [](\A i \in 1..Len(events) :
            \E m \in MsgIds :
                /\ queue[m].body.event_id = events[i].event_id
                /\ queue[m].body.correlation_id = events[i].correlation_id)

\* C28 witness: a request with X-Correlation-ID h1 was answered 202, and the
\* event it submitted is stored with correlation_id h1.
C28_Witness ==
    \E i \in 1..Len(events), m \in MsgIds :
        /\ events[i].correlation_id = "h1"
        /\ queue[m].body.correlation_id = "h1"
        /\ queue[m].body.event_id = events[i].event_id
        /\ queue[m].state = "deleted"
        /\ ledger[events[i].event_id].status = "success"

\* C29: a message whose materialized bytes hash to its payload_sha256 and
\* deserialize into an event that violates a constraint takes the poison path
\* with reason validation_error; ProcessMessage returns nil for it with the
\* ledger row 'failed' and the events table untouched.
C29_RevalidationPoisons ==
    [][\A w \in Workers :
         /\ (/\ wk[w].pc = "fetch" /\ wk'[w].pc # "fetch"
             /\ hist'.crashes = hist.crashes /\ hist'.faults = hist.faults
             /\ CurMsg(w).payload_mode \in {"INLINE", "S3"}
             /\ Materialized(w) # NilBytes
             /\ SHA256(Materialized(w)) = CurMsg(w).payload_sha256
             /\ Unmarshal(Materialized(w)).ok
             /\ ~Constraints(Unmarshal(Materialized(w)).event, now)) =>
              /\ wk'[w].pc = "fail_permanent"
              /\ wk'[w].reason = "validation_error"
         /\ (/\ wk[w].pc = "fail_permanent" /\ wk[w].reason = "validation_error"
             /\ wk'[w].pc # "fail_permanent"
             /\ hist'.crashes = hist.crashes) =>
              /\ ReturnsNil(w)
              /\ ledger'[CurEvent(w)].status = "failed"
              /\ ledger'[CurEvent(w)].error_reason = "validation_error"
              /\ events' = events]_vars

\* C30: a fault of the claim's transaction leaves CheckAndMark with an error;
\* an error of the claim, and a fault of the payload fetch or of the events
\* insert, end the invocation with an error: no message of its batch is
\* deleted, the ledger and the events table are left as they are (no row
\* becomes 'failed') and the event is not recorded as processed.
C30_TransientNacked ==
    [][\A w \in Workers :
         /\ (/\ wk[w].pc \in {"cam_select", "cam_insert"} /\ wk'[w] # wk[w]
             /\ hist'.faults > hist.faults) =>
              /\ ledger' = ledger
              /\ \/ wk'[w].pc = "claimed" /\ wk'[w].result = "error"
                 \/ wk'[w].pc = "cam_select" /\ wk'[w].tx_aborted
         /\ (wk[w].pc = "cam_select" /\ wk[w].tx_aborted /\ wk'[w] # wk[w]
               /\ hist'.crashes = hist.crashes) =>
              wk'[w].pc = "claimed" /\ wk'[w].result = "error" /\ ledger' = ledger
         /\ (/\ hist'.crashes = hist.crashes /\ wk'[w] # wk[w]
             /\ \/ wk[w].pc = "claimed" /\ wk[w].result = "error"
                \/ wk[w].pc \in {"fetch", "insert_event"} /\ hist'.faults > hist.faults) =>
              /\ Nacked(w)
              /\ \A m \in MsgIds : InBatch(w, m) => queue'[m] = queue[m]
              /\ \A m \in MsgIds : InBatch(w, m) => queue'[m].state = "inflight"
              /\ ledger' = ledger
              /\ events' = events
              /\ hist'.succeeded = hist.succeeded]_vars

\* C30 witness: an invocation claimed e1 and then met a fault; its message is
\* still in flight with no invocation on it, the row is 'processing' and no
\* event is stored.
C30_Witness ==
    /\ hist.faults = 1 /\ hist.crashes = 0
    /\ \A w \in Workers : ~Active(w)
    /\ \E m \in MsgIds :
         /\ queue[m].state = "inflight"
         /\ queue[m].body.event_id = "e1"
    /\ ledger["e1"].status = "processing"
    /\ RowsOf(events, "e1") = {}
    /\ "e1" \notin hist.succeeded

\* C31: the handler skips a record whose body does not parse without touching
\* the ledger or the events table and without returning an error for it, and
\* an invocation that has skipped such a record and ends without dying leaves
\* that message deleted from the queue.
C31_UnparsedAcked ==
    [][\A w \in Workers :
         /\ (/\ wk[w].pc = "handler" /\ ~ParseSQSEventMessage(CurMsg(w))
             /\ wk'[w] # wk[w]) =>
              /\ ledger' = ledger
              /\ events' = events
              /\ \/ wk'[w].pc = "handler" /\ wk'[w].idx = wk[w].idx + 1
                 \/ wk'[w].pc = "idle" /\ queue'[CurId(w)].state = "deleted"
         /\ (/\ Active(w) /\ wk'[w].pc = "idle") =>
              \A k \in 1..(wk[w].idx - 1) :
                ~ParseSQSEventMessage(queue[wk[w].batch[k]].body) =>
                  queue'[wk[w].batch[k]].state = "deleted"]_vars

\* C32: a CheckAndMark call that finds the row 'failed' and meets no database
\* fault returns retry and leaves the row 'processing' with last_seen_at = now
\* and attempts one higher, whatever the age of the row.
C32_FailedRetried ==
    [][\A w \in Workers, e \in EventIds :
         (/\ ClaimReturns(w, e)
          /\ ledger[e].status = "failed"
          /\ hist'.faults = hist.faults) =>
           /\ wk'[w].result = "retry"
           /\ ledger'[e].status = "processing"
           /\ ledger'[e].last_seen_at = now
           /\ ledger'[e].attempts = ledger[e].attempts + 1]_vars

\* C32 witness: a claim on a 'failed' row younger than the liveness window
\* has returned retry.
C32_Witness ==
    \E w \in Workers :
      /\ wk[w].pc = "claimed" /\ wk[w].seen = "failed" /\ wk[w].result = "retry"
      /\ now < LivenessWindow
      /\ ledger[CurEvent(w)].status = "processing"
      /\ ledger[CurEvent(w)].attempts = 2

\* C33: under any sequence of CheckAndMark, MarkSuccess and MarkFailed calls a
\* ledger row has attempts >= 1; it is created 'processing' with attempts = 1;
\* attempts never decreases, and it changes only by one, in a claim that
\* returns retry (the row was 'failed' or stale 'processing' and is left
\* 'processing' with last_seen_at = now).
C33_AttemptsMonotone ==
    /\ [](\A e \in EventIds : ledger[e].status # "absent" => ledger[e].attempts >= 1)
    /\ [][\A e \in EventIds :
            /\ (ledger[e].status = "absent" /\ ledger'[e].status # "absent") =>
                 ledger'[e].attempts = 1 /\ ledger'[e].status = "processing"
            /\ ledger'[e].attempts >= ledger[e].attempts
            /\ (ledger[e].status # "absent" /\ ledger'[e].attempts # ledger[e].attempts) =>
                 /\ ledger'[e].attempts = ledger[e].attempts + 1
                 /\ ~CheckAndMarkExisting(ledger[e], now).already
                 /\ ledger'[e] = CheckAndMarkExisting(ledger[e], now).row
                 /\ ledger'[e].status = "processing"
                 /\ ledger'[e].last_seen_at = now
                 /\ \/ ledger[e].status = "failed"
                    \/ /\ ledger[e].status = "processing"
                       /\ now - ledger[e].last_seen_at >= LivenessWindow]_vars

\* C33 witness: a row was created, failed, claimed again and completed.
C33_Witness ==
    \E e \in EventIds :
      /\ ledger[e].status = "success"
      /\ ledger[e].attempts = 2
      /\ ledger[e].error_reason = "hash_mismatch"

\* C34: a claim whose INSERT collided with the insert of another caller reads
\* the row again and returns what that row decides (already-processed or
\* retry); it returns fresh only for the row it inserted itself, and an error
\* without a database fault only after MaxClaimLoop rounds.
C34_CollisionDecides ==
    [][\A w \in Workers :
         /\ (/\ wk[w].pc = "cam_select" /\ wk[w].loop >= 1
             /\ ledger[CurEvent(w)].status # "absent"
             /\ wk'[w] # wk[w]
             /\ hist'.faults = hist.faults /\ hist'.crashes = hist.crashes) =>
              /\ wk'[w].pc = "claimed"
              /\ wk'[w].result =
                   IF CheckAndMarkExisting(ledger[CurEvent(w)], now).already
                   THEN "already" ELSE "retry"
         /\ (wk[w].pc # "claimed" /\ wk'[w].pc = "claimed" /\ wk'[w].result = "fresh") =>
              /\ ledger[CurEvent(w)].status = "absent"
              /\ ledger'[CurEvent(w)] = NewRow(now)
         /\ (/\ wk[w].pc # "claimed" /\ wk'[w].pc = "claimed"
             /\ wk'[w].result = "error" /\ hist.faults = 0 /\ hist'.faults = 0) =>
              wk[w].loop + 1 >= MaxClaimLoop]_vars

\* C35: a step of CheckAndMark that changes the ledger belongs to a call that
\* returns fresh or retry, so a call that returns an error has changed no row;
\* and the caller that gets the error returns it (the batch stays on the
\* queue) without going on to the payload, the events table or the ledger.
C35_ClaimErrorNoChange ==
    [][\A w \in Workers :
         /\ (/\ wk[w].pc \in {"cam_select", "cam_insert"} /\ wk'[w] # wk[w]
             /\ hist'.crashes = hist.crashes) =>
              /\ ledger' # ledger =>
                   /\ wk'[w].pc = "claimed"
                   /\ wk'[w].result \in {"fresh", "retry"}
              /\ wk'[w].result = "error" =>
                   /\ ledger' = ledger
                   /\ hist'.fresh = hist.fresh
                   /\ wk'[w].pc = "claimed"
         /\ (/\ wk[w].pc = "claimed" /\ wk[w].result = "error" /\ wk'[w] # wk[w]
             /\ hist'.crashes = hist.crashes) =>
              /\ Nacked(w)
              /\ ~ReturnsNil(w)
              /\ ledger' = ledger /\ events' = events /\ queue' = queue]_vars

\* C35 witness: a claim on a 'failed' row met a database fault and returned
\* an error; the row is as MarkFailed left it.
C35_Witness ==
    \E w \in Workers :
      /\ wk[w].pc = "claimed" /\ wk[w].result = "error"
      /\ hist.faults = 1
      /\ ledger[CurEvent(w)].status = "failed"
      /\ ledger[CurEvent(w)].attempts = 1

\* No message for e is left on the queue and no invocation runs.
Settled(e) ==
    /\ \A w \in Workers : ~Active(w)
    /\ \A m \in MsgIds : queue[m].body.event_id = e => queue[m].state = "deleted"

\* C36: when MarkSuccess fails after the event was persisted, ProcessMessage
\* still returns nil and the events row stays; and the ledger row of an event
\* that went down the success path is 'success' once no message for it is left
\* to be delivered.
C36_MarkSuccessHeals ==
    /\ [][\A w \in Workers :
            (/\ wk[w].pc = "mark_success" /\ wk'[w] # wk[w]
             /\ hist'.crashes = hist.crashes /\ hist'.faults > hist.faults) =>
              /\ ReturnsNil(w)
              /\ events' = events
              /\ RowsOf(events, CurEvent(w)) # {}]_vars
    /\ [](\A e \in EventIds :
            (e \in hist.succeeded /\ Settled(e)) => ledger[e].status = "success")

\* C37: when ProcessMessage returns nil on the success path, one notification
\* {event_id, status: processed} with the attributes event_id and
\* correlation_id of the message has been published; no other step of the
\* processor publishes anything.
C37_NotifiesOnSuccess ==
    [][\A w \in Workers :
         /\ (/\ wk[w].pc = "mark_success" /\ wk'[w] # wk[w]
             /\ hist'.crashes = hist.crashes) =>
              hist'.published = Append(hist.published, Notification(CurMsg(w)))
         /\ (wk[w].pc # "mark_success" /\ wk'[w] # wk[w]) =>
              hist'.published = hist.published]_vars

\* The other constraints of Event.Validate hold of e.
OtherwiseValid(e) ==
    /\ e.user_id # "" /\ e.amount > 0 /\ e.currency # "" /\ e.merchant # ""
    /\ e.nmeta <= MaxMetadataKeys

\* C38: of an event that meets the other constraints, Validate at clock
\* reading t accepts the timestamp t + 5 minutes and rejects every later one,
\* from the next instant on, with field 'timestamp'.
C38_TimestampBound ==
    hist.reply.status \in {200, 400} =>
      LET e == hist.reply.record.event
          t == hist.reply.record.at
          err == hist.reply.record.err
      IN (OtherwiseValid(e) /\ e.timestamp # ZeroTime) =>
           /\ e.timestamp <= t + FutureDrift => err = NoError
           /\ e.timestamp = t + FutureDrift => hist.reply.status = 200
           /\ e.timestamp >= t + FutureDrift + 1 => err.field = "timestamp"

\* C38 witness: at a clock reading after 0, an event stamped exactly five
\* minutes ahead was accepted.
C38_Witness ==
    /\ hist.reply.status = 200
    /\ hist.reply.record.at > 0
    /\ hist.reply.record.event.timestamp = hist.reply.record.at + FutureDrift
    /\ hist.reply.record.err = NoError

\* C39: the error of Validate names the first violated constraint in the order
\* user_id, amount, currency, merchant, timestamp, metadata, with code
\* MISSING_FIELD for an empty user_id, currency or merchant and a zero
\* timestamp, and INVALID_VALUE for amount <= 0, a timestamp more than five
\* minutes ahead and more than 10 metadata keys; a valid event has no error.
C39_FirstViolation ==
    hist.reply.status \in {200, 400} =>
      LET e == hist.reply.record.event
          t == hist.reply.record.at
          err == hist.reply.record.err
          violated ==
            <<e.user_id = "", e.amount <= 0, e.currency = "", e.merchant = "",
              e.timestamp = ZeroTime \/ e.timestamp > t + FutureDrift,
              e.nmeta > MaxMetadataKeys>>
          fields == <<"user_id", "amount", "currency", "merchant", "timestamp",
                      "metadata">>
          codes == <<"MISSING_FIELD", "INVALID_VALUE", "MISSING_FIELD",
                     "MISSING_FIELD",
                     IF e.timestamp = ZeroTime THEN "MISSING_FIELD" ELSE "INVALID_VALUE",
                     "INVALID_VALUE">>
      IN /\ (\A i \in 1..6 : ~violated[i]) <=> err = NoError
         /\ (hist.reply.status = 200) <=> err = NoError
         /\ \A i \in 1..6 :
              (violated[i] /\ \A j \in 1..(i - 1) : ~violated[j]) =>
                err.field = fields[i] /\ err.code = codes[i]
         /\ err.field = Validate(e, t)

\* C39 witness: an event with a negative amount, no merchant and eleven
\* metadata keys was rejected for its amount.
C39_Witness ==
    /\ hist.reply.status = 400
    /\ hist.reply.record.event.user_id # ""
    /\ hist.reply.record.event.amount < 0
    /\ hist.reply.record.event.merchant = ""
    /\ hist.reply.record.event.nmeta > MaxMetadataKeys
    /\ hist.reply.record.err = ErrInvalidEvent("amount", "INVALID_VALUE")

\* C40: the message a run of the ingest handler puts on the queue has
\* received_at equal to the time of that run.
C40_ReceivedAtNow ==
    [][Len(queue') > Len(queue) =>
         queue'[Len(queue')].body.received_at = now]_vars

====
